---------------------------- MODULE Spec2Model ----------------------------
(***************************************************************************)
(* A model of grolt's interactive console (src/grolt/console.py): the      *)
(* read-eval loop Neo4jConsole.run, the invocation context                 *)
(* Neo4jConsole.invoke, the command registry (__iter__ / __getitem__), the *)
(* target resolver (_iter_machines / _for_each_machine) and the command    *)
(* bodies of Neo4jConsole and Neo4jClusterConsole.                         *)
(*                                                                         *)
(* Strings are TLA+ strings.  An input line is a sequence of chunks: a     *)
(* chunk is a whitespace character, a quote character or a run of ordinary *)
(* characters (a word).  The Service, its Machines, their containers and   *)
(* the Connector are external collaborators: every call to one is logged   *)
(* in `trace` and may raise.  `trace`, `out` and `err` record what the     *)
(* invocation in flight has done and are cleared when the loop prompts     *)
(* again.  self.args is written by run and read nowhere; the model keeps   *)
(* the tokens in `args` for the invocation in flight only.                 *)
(***************************************************************************)
EXTENDS Integers, Sequences, FiniteSets, TLC

VARIABLES
    cluster,    \* TRUE: the console is a Neo4jClusterConsole
    machines,   \* service.machines: ordered mapping spec -> Machine or None
    pc,         \* position of the read-eval loop
    text,       \* run's local `text`: the line prompt() returned
    args,       \* the token list handed to invoke
    cmd,        \* the command body in flight and its bound parameters
    snap,       \* _iter_machines: list(service.machines), as captured
    todo,       \* _iter_machines: the specs of that list not yet visited
    found,      \* _for_each_machine: the local counter
    cur,        \* the (spec, machine) pair the action f is running on
    fpos,       \* how many collaborator calls of f have been made for cur
    paused,     \* fq names of the containers paused and not yet unpaused
    cx,         \* rt's Connector: "none", "open" or "closed"
    trace,      \* collaborator calls made by the invocation in flight
    out,        \* lines echoed to the output stream by the invocation in flight
    err,        \* lines echoed to the error stream by the invocation in flight
    exc         \* the exception that left run, "none" while the loop is alive

vars == <<cluster, machines, pc, text, args, cmd, snap, todo, found, cur, fpos,
          paused, cx, trace, out, err, exc>>

---------------------------------------------------------------------------
(* Bounds of the model.                                                    *)

\* Longest line of arbitrary chunks (whitespace, quotes, one word).
MaxRaw == 2
\* Most argument words after the command word of a well-formed line.
MaxArgs == 1
\* Most entries of service.machines.
MaxMachines == 2

---------------------------------------------------------------------------
(* Input lines.                                                            *)

SP == " "
QT == "'"

\* Chunks of the lines that exercise the tokenizer.
RawChunks == {SP, QT, "exit"}

\* First words of the well-formed lines: every command of both consoles,
\* an attribute that is not a command, and a name that is no attribute.
CmdWords == {"browser", "env", "exit", "help", "ls", "ping", "rt", "logs",
             "pause", "add", "rm", "reboot", "run", "zz"}

\* Argument words of the well-formed lines.
ArgWords == {"a", "a.s", "zz", "2.0", "nan", "--help", "-r", "ls",
             "c", "core", "r", "rr", "replica", "read-replica", "read_replica"}

\* An argument as typed: a word, or the quoted empty string.
ArgPhrases == {<<w>> : w \in ArgWords} \cup {<<QT, QT>>}

SeqsUpTo(S, n) == UNION {[1..k -> S] : k \in 0..n}

\* The phrases of a line, separated by single spaces.
RECURSIVE JoinWords(_)
JoinWords(ws) ==
    IF Len(ws) = 0 THEN <<>>
    ELSE IF Len(ws) = 1 THEN ws[1]
    ELSE ws[1] \o <<SP>> \o JoinWords(Tail(ws))

Lines ==
    SeqsUpTo(RawChunks, MaxRaw)
    \cup {JoinWords(<<(<<c>>)>> \o a) :
             c \in CmdWords, a \in SeqsUpTo(ArgPhrases, MaxArgs)}

---------------------------------------------------------------------------
(* shlex.split, as run calls it (posix mode, whitespace splitting).        *)

\* The scanner: st is "ws" between tokens, "word" inside a token, "quote"
\* inside a quoted part of a token; tok is the token being built.
RECURSIVE ShlexScan(_, _, _, _, _)
ShlexScan(line, i, st, tok, toks) ==
    IF i > Len(line)
    THEN CASE st = "quote" -> [ok |-> FALSE, toks |-> <<>>]
           [] st = "word"  -> [ok |-> TRUE, toks |-> Append(toks, tok)]
           [] OTHER        -> [ok |-> TRUE, toks |-> toks]
    ELSE LET c == line[i] IN
         CASE st = "quote" ->
                IF c = QT THEN ShlexScan(line, i + 1, "word", tok, toks)
                ELSE ShlexScan(line, i + 1, "quote", tok \o c, toks)
           [] c = SP ->
                IF st = "word" THEN ShlexScan(line, i + 1, "ws", "", Append(toks, tok))
                ELSE ShlexScan(line, i + 1, "ws", "", toks)
           [] c = QT -> ShlexScan(line, i + 1, "quote", tok, toks)
           [] OTHER  -> ShlexScan(line, i + 1, "word", tok \o c, toks)

\* ok = FALSE: ValueError("No closing quotation").
shlex_split(line) == ShlexScan(line, 1, "ws", "", <<>>)

---------------------------------------------------------------------------
(* The Service's machine mapping.                                          *)

Spec_a  == [name |-> "a", fq_name |-> "a.s", mode |-> "CORE"]
Spec_b  == [name |-> "b", fq_name |-> "b.s", mode |-> "unset"]
Spec_a2 == [name |-> "a", fq_name |-> "a.t", mode |-> "READ_REPLICA"]

SpecPool == {Spec_a, Spec_b, Spec_a2}

\* An entry: a spec and whether a live Machine (TRUE) or None (FALSE) is
\* stored under it.
Entries == [spec : SpecPool, live : BOOLEAN]

Snapshots ==
    {m \in SeqsUpTo(Entries, MaxMachines) :
        \A i, j \in 1..Len(m) : i # j => m[i].spec # m[j].spec}

---------------------------------------------------------------------------
(* The command registry: __iter__ and __getitem__.                         *)

BaseCommands == {"browser", "env", "exit", "help", "ls", "ping", "rt",
                 "logs", "pause"}

ClusterCommands == {"add", "rm", "reboot"}

\* Attributes of a console that are not click commands.
OtherAttributes == {"args", "service", "run", "invoke", "prompt",
                    "_iter_machines", "_for_each_machine"}

\* The names getattr(self, name) finds on a console of class cls.
Attributes(cls) ==
    BaseCommands \cup OtherAttributes \cup (IF cls THEN ClusterCommands ELSE {})

\* isinstance(getattr(self, name), click.Command)
IsCommand(cls, name) ==
    name \in BaseCommands \/ (cls /\ name \in ClusterCommands)

\* Neo4jConsole.__iter__: the names of the members that are commands.
Commands(cls) == {n \in Attributes(cls) : IsCommand(cls, n)}

\* A line of text: its fixed wording and the values it names, in order.
Msg(t, ns) == [text |-> t, names |-> ns]

\* A lookup that takes the commands of every console class for its own.
GetItem_AnyClass(cls, name) ==
    IF name \in Attributes(TRUE) /\ IsCommand(TRUE, name)
    THEN [e |-> "none", msg |-> Msg("", <<>>)]
    ELSE [e |-> "BadParameter", msg |-> Msg("No such command", <<name>>)]

\* A lookup that knows only the commands of the base console.
GetItem_BaseOnly(cls, name) ==
    IF name \in Attributes(FALSE) /\ IsCommand(FALSE, name)
    THEN [e |-> "none", msg |-> Msg("", <<>>)]
    ELSE [e |-> "BadParameter", msg |-> Msg("No such command", <<name>>)]

\* Neo4jConsole.__getitem__: the command, or BadParameter.
GetItem(cls, name) ==
    IF name \in Attributes(cls) /\ IsCommand(cls, name)
    THEN [e |-> "none", msg |-> Msg("", <<>>)]
    ELSE [e |-> "BadParameter", msg |-> Msg("No such command", <<name>>)]

---------------------------------------------------------------------------
(* Argument binding: the click decorators of each command, as              *)
(* f.make_context applies them to the raw argument tokens.                 *)

\* The declared positional arguments of each command, in order.
Arguments(name) ==
    CASE name \in {"browser", "ping", "logs"} ->
            <<[name |-> "machine", required |-> FALSE, type |-> "str"]>>
      [] name = "help" -> <<[name |-> "command", required |-> FALSE, type |-> "str"]>>
      [] name = "rt"   -> <<[name |-> "gdb", required |-> FALSE, type |-> "str"]>>
      [] name = "pause" ->
            <<[name |-> "time", required |-> TRUE, type |-> "float"],
              [name |-> "machine", required |-> FALSE, type |-> "str"]>>
      [] name = "add"  -> <<[name |-> "mode", required |-> TRUE, type |-> "str"]>>
      [] name \in {"rm", "reboot"} ->
            <<[name |-> "machine", required |-> TRUE, type |-> "str"]>>
      [] OTHER -> <<>>

\* The declared options of each command; click adds --help to every one.
Options(name) == IF name = "ls" THEN {"-r", "--help"} ELSE {"--help"}

\* Tokens click's parser takes for options: those of the vocabulary that
\* start with a dash.
OptionLike(tok) == tok \in {"--help", "-r"}

\* float(tok) for the click FLOAT type: the words of the vocabulary that
\* Python parses as a float.
ParseFloat(tok) ==
    CASE tok = "2.0" -> [ok |-> TRUE, nan |-> FALSE, val |-> 2]
      [] tok = "nan" -> [ok |-> TRUE, nan |-> TRUE, val |-> 0]
      [] OTHER       -> [ok |-> FALSE, nan |-> FALSE, val |-> 0]

\* An absent optional argument is None.
None == [given |-> FALSE, s |-> "", f |-> ParseFloat("")]
Given(tok) == [given |-> TRUE, s |-> tok, f |-> ParseFloat(tok)]

\* f.make_context(arg0, args, obj=self): the parser rejects an unknown
\* option first, the eager --help option exits next, then the arguments are
\* converted in declared order, and tokens left over are an error.
MakeContext(name, rest) ==
    LET pos  == SelectSeq(rest, LAMBDA t : ~OptionLike(t))
        opts == {rest[i] : i \in {j \in 1..Len(rest) : OptionLike(rest[j])}}
        decl == Arguments(name)
        val(i) == IF i <= Len(pos) THEN Given(pos[i]) ELSE None
        bad  == {i \in 1..Len(decl) :
                    \/ decl[i].required /\ ~val(i).given
                    \/ decl[i].type = "float" /\ val(i).given /\ ~val(i).f.ok}
        unknown == opts \ Options(name)
        first == CHOOSE i \in bad : \A j \in bad : i <= j
    IN  IF unknown # {}
        THEN [e |-> "UsageError",
              msg |-> Msg("No such option", <<CHOOSE o \in unknown : TRUE>>),
              vals |-> <<>>]
        ELSE IF "--help" \in opts
        THEN [e |-> "Exit", msg |-> Msg("Usage", <<name>>), vals |-> <<>>]
        ELSE IF bad # {}
        THEN IF ~val(first).given
             THEN [e |-> "UsageError",
                   msg |-> Msg("Missing argument", <<decl[first].name>>),
                   vals |-> <<>>]
             ELSE [e |-> "BadParameter",
                   msg |-> Msg("is not a valid float", <<val(first).s>>),
                   vals |-> <<>>]
        ELSE IF Len(pos) > Len(decl)
        THEN [e |-> "UsageError",
              msg |-> Msg("Got unexpected extra argument", <<pos[Len(decl) + 1]>>),
              vals |-> <<>>]
        ELSE [e |-> "none", msg |-> Msg("", <<>>),
              vals |-> [i \in 1..Len(decl) |-> val(i)]]

---------------------------------------------------------------------------
(* The target resolver: _iter_machines and _for_each_machine.              *)

\* if not name: name = "a"
\* A resolver that matches on the token as given, without a default.
EffectiveName_NoDefault(v) == IF v.given THEN v.s ELSE "None"

EffectiveName(v) == IF ~v.given \/ v.s = "" THEN "a" ELSE v.s

\* A match on the short name alone.
Matches_ShortNameOnly(spec, name) == name = spec.name

\* name in (spec.name, spec.fq_name)
Matches(spec, name) == name \in {spec.name, spec.fq_name}

\* list(self.service.machines): the keys, in the mapping's order.
SpecList(ms) == [i \in 1..Len(ms) |-> ms[i].spec]

\* The positions of specs left to visit that match the name.
MatchIdx(specs, name) == {i \in 1..Len(specs) : Matches(specs[i], name)}

\* self.service.machines[spec]: the positions holding the spec (none: KeyError).
Lookup(ms, spec) == {i \in 1..Len(ms) : ms[i].spec = spec}

---------------------------------------------------------------------------
(* What a command body does: collaborator calls, echoed lines, and the     *)
(* exception it ends with ("none": it returns).                            *)

\* A collaborator call: what is called, on which machine or with which
\* argument, for how long (sleep), whether the call raised, and the truth
\* value of what it returned where the console tests it ("None" elsewhere).
Ev(op, arg, t) == [op |-> op, arg |-> arg, t |-> t, raised |-> FALSE, ret |-> "None"]

Failed(ev) == [ev EXCEPT !.raised = TRUE]

Ret(ev, r) == [ev EXCEPT !.ret = r]

Outcome(e, msg, tr, o, c, ms) ==
    [e |-> e, msg |-> msg, trace |-> tr, out |-> o, cx |-> c, machines |-> ms]

NoMsg == Msg("", <<>>)

\* repr() of a bound argument, as "{!r}".format renders it.
Repr(v) == IF v.given THEN "'" \o v.s \o "'" ELSE "None"

NotFound(v) == Msg("Machine not found", <<Repr(v)>>)

\* The commands in the order sorted() gives their names.
AlphaOrder == <<"add", "browser", "env", "exit", "help", "logs", "ls",
                "pause", "ping", "reboot", "rm", "rt">>

\* An ordering of the names from the last to the first.
Sorted_Reversed(S) ==
    LET asc == SelectSeq(AlphaOrder, LAMBDA n : n \in S)
    IN  [i \in 1..Len(asc) |-> asc[Len(asc) + 1 - i]]

Sorted(S) == SelectSeq(AlphaOrder, LAMBDA n : n \in S)

\* f.get_short_help_str: the first sentence of the command's docstring.
ShortHelp(name) ==
    CASE name = "add"     -> "Add a new server by mode."
      [] name = "browser" -> "Start the Neo4j browser."
      [] name = "env"     -> "Show available environment variables."
      [] name = "exit"    -> "Shutdown all machines and exit the console."
      [] name = "help"    -> "Get help on a command or show all available commands."
      [] name = "logs"    -> "Display logs for a named server."
      [] name = "ls"      -> "Show a detailed list of the available servers."
      [] name = "pause"   -> "Pause a server for a given number of seconds."
      [] name = "ping"    -> "Ping a server by name to check it is available."
      [] name = "reboot"  -> "Reboot a server by name or role."
      [] name = "rm"      -> "Remove a server by name or role."
      [] name = "rt"      -> "Display the routing table for a given graph database."
      [] OTHER            -> ""

\* Neo4jConsole.env
EnvBody(ms) ==
    {Outcome("CollabError", NoMsg, <<Failed(Ev("Service.env", "", 0))>>, <<>>, "none", ms),
     Outcome("none", NoMsg, <<Ev("Service.env", "", 0)>>,
             <<Msg("BOLT_SERVER_ADDR", <<>>), Msg("NEO4J_AUTH", <<>>)>>, "none", ms)}

\* Neo4jConsole.exit
ExitBody(ms) == {Outcome("SystemExit", NoMsg, <<>>, <<>>, "none", ms)}

\* Neo4jConsole.help
HelpBody(cls, command, ms) ==
    IF command.given /\ command.s # ""
    THEN LET f == GetItem(cls, command.s) IN
         IF f.e # "none"
         THEN {Outcome(f.e, f.msg, <<>>, <<>>, "none", ms)}
         ELSE {Outcome("none", NoMsg, <<>>, <<Msg("Usage", <<command.s>>)>>, "none", ms)}
    ELSE LET names == Sorted(Commands(cls)) IN
         {Outcome("none", NoMsg, <<>>,
                  <<Msg("Commands:", <<>>)>> \o
                  [i \in 1..Len(names) |-> Msg(names[i], <<ShortHelp(names[i])>>)],
                  "none", ms)}

\* spec.config.get("dbms.mode", "SINGLE")
ModeOf(spec) == IF spec.mode = "unset" THEN "SINGLE" ELSE spec.mode

\* An ls that does not skip the entries without a machine.
LsBody_NoSkip(ms) ==
    {Outcome("none", NoMsg, <<>>,
             <<Msg("NAME CONTAINER MODE BOLT PORT HTTP PORT DEBUG PORT", <<>>)>> \o
             [i \in 1..Len(ms) |-> Msg("row", <<ms[i].spec.fq_name, ModeOf(ms[i].spec)>>)],
             "none", ms)}

\* Neo4jConsole.ls
LsBody(ms) ==
    LET shown == SelectSeq(ms, LAMBDA en : en.live) IN
    {Outcome("none", NoMsg, <<>>,
             <<Msg("NAME CONTAINER MODE BOLT PORT HTTP PORT DEBUG PORT", <<>>)>> \o
             [i \in 1..Len(shown) |->
                 Msg("row", <<shown[i].spec.fq_name, ModeOf(shown[i].spec)>>)],
             "none", ms)}

\* The collaborator calls of rt, in order; the connector exists once the
\* second has returned.
RtCalls(gdb) ==
    <<Ev("Service.routers", "", 0), Ev("Connector", "", 0),
      Ev("Connector.refresh_routing_table", Repr(gdb), 0),
      Ev("RoutingTable.runners", "", 0),
      Ev("Connector.get_router_profiles", "", 0), Ev("Connector.close", "", 0)>>

\* The lines rt has echoed once n of its calls have returned.
RtOut(gdb, n) ==
    (IF n >= 2 THEN <<Msg("Refreshing routing information", <<Repr(gdb)>>)>> ELSE <<>>)
    \o (IF n >= 5 THEN <<Msg("Routers:", <<>>), Msg("Readers:", <<>>),
                         Msg("Writers:", <<>>)>> ELSE <<>>)

\* Neo4jConsole.rt: any of the calls before close may raise, and routers()
\* may return an empty list (routers[0] is then an IndexError).
RtBody(gdb, ms) ==
    LET calls == RtCalls(gdb) IN
    {Outcome("CollabError", NoMsg,
             SubSeq(calls, 1, k - 1) \o <<Failed(calls[k])>>, RtOut(gdb, k - 1),
             IF k > 2 THEN "open" ELSE "none", ms) : k \in 1..5}
    \cup {Outcome("IndexError", NoMsg, SubSeq(calls, 1, 1), <<>>, "none", ms)}
    \cup {Outcome("none", NoMsg, calls, RtOut(gdb, 6), "closed", ms)}

---------------------------------------------------------------------------
(* The Service's topology operations, as far as the console sees them.     *)

\* add_core / add_replica: the Service may register one more machine.
ServiceAdd(ms) ==
    {ms} \cup {Append(ms, en) : en \in {x \in Entries :
                   /\ x.live
                   /\ Len(ms) < MaxMachines
                   /\ \A i \in 1..Len(ms) : ms[i].spec # x.spec}}

\* remove(token) returning True: the Service has dropped one machine.
ServiceRemove(ms) ==
    {SubSeq(ms, 1, i - 1) \o SubSeq(ms, i + 1, Len(ms)) : i \in 1..Len(ms)}

---------------------------------------------------------------------------
(* Neo4jClusterConsole's commands.                                         *)

\* An add whose synonym table lacks "read_replica".
AddBody_MissingSynonym(mode, ms) ==
    IF mode.s \in {"c", "core"}
    THEN {Outcome("none", NoMsg, <<Ev("Service.add_core", "", 0)>>, <<>>, "none", ms)}
    ELSE IF mode.s \in {"r", "rr", "replica", "read-replica"}
    THEN {Outcome("none", NoMsg, <<Ev("Service.add_replica", "", 0)>>, <<>>, "none", ms)}
    ELSE {Outcome("BadParameter",
                  Msg("Invalid value for MODE, choose from", <<"core", "read-replica">>),
                  <<>>, <<>>, "none", ms)}

\* Neo4jClusterConsole.add
AddBody(mode, ms) ==
    IF mode.s \in {"c", "core"}
    THEN {Outcome("CollabError", NoMsg, <<Failed(Ev("Service.add_core", "", 0))>>,
                  <<>>, "none", ms)}
         \cup {Outcome("none", NoMsg, <<Ev("Service.add_core", "", 0)>>, <<>>, "none", m2) :
                  m2 \in ServiceAdd(ms)}
    ELSE IF mode.s \in {"r", "rr", "replica", "read-replica", "read_replica"}
    THEN {Outcome("CollabError", NoMsg, <<Failed(Ev("Service.add_replica", "", 0))>>,
                  <<>>, "none", ms)}
         \cup {Outcome("none", NoMsg, <<Ev("Service.add_replica", "", 0)>>, <<>>, "none", m2) :
                  m2 \in ServiceAdd(ms)}
    ELSE {Outcome("BadParameter",
                  Msg("Invalid value for MODE, choose from", <<"core", "read-replica">>),
                  <<>>, <<>>, "none", ms)}

\* An rm that raises when the Service reports success.
RmBody_TestInverted(machine, ms) ==
    LET call == Ev("Service.remove", machine.s, 0) IN
    {Outcome("BadParameter", NotFound(machine), <<Ret(call, "True")>>, <<>>, "none", ms),
     Outcome("none", NoMsg, <<Ret(call, "False")>>, <<>>, "none", ms)}

\* Neo4jClusterConsole.rm: the Service raises, returns a falsy value, or
\* returns a true one.
RmBody(machine, ms) ==
    LET call == Ev("Service.remove", machine.s, 0) IN
    {Outcome("CollabError", NoMsg, <<Failed(call)>>, <<>>, "none", ms),
     Outcome("BadParameter", NotFound(machine), <<Ret(call, "False")>>, <<>>, "none", ms)}
    \cup {Outcome("none", NoMsg, <<Ret(call, "True")>>, <<>>, "none", m2) :
             m2 \in ServiceRemove(ms)}

\* Neo4jClusterConsole.reboot
RebootBody(machine, ms) ==
    LET call == Ev("Service.reboot", machine.s, 0) IN
    {Outcome("CollabError", NoMsg, <<Failed(call)>>, <<>>, "none", ms),
     Outcome("BadParameter", NotFound(machine), <<Ret(call, "False")>>, <<>>, "none", ms),
     Outcome("none", NoMsg, <<Ret(call, "True")>>, <<>>, "none", ms)}

\* The commands whose body is a loop over the matching machines.
MachineCommands == {"browser", "ping", "logs", "pause"}

\* The body of a command that is no loop over machines.
Body(cls, name, vals, ms) ==
    CASE name = "env"    -> EnvBody(ms)
      [] name = "exit"   -> ExitBody(ms)
      [] name = "help"   -> HelpBody(cls, vals[1], ms)
      [] name = "ls"     -> LsBody(ms)
      [] name = "rt"     -> RtBody(vals[1], ms)
      [] name = "add"    -> AddBody(vals[1], ms)
      [] name = "rm"     -> RmBody(vals[1], ms)
      [] name = "reboot" -> RebootBody(vals[1], ms)

---------------------------------------------------------------------------
(* The state after construction.                                           *)

NoCmd == [name |-> "", machine |-> None, time |-> None]
NoCur == [spec |-> Spec_a, live |-> FALSE, set |-> FALSE]

Init ==
    /\ cluster \in BOOLEAN
    /\ machines \in Snapshots
    /\ pc = "Prompting"
    /\ text = <<>>
    /\ args = <<>>
    /\ cmd = NoCmd
    /\ snap = <<>>
    /\ todo = <<>>
    /\ found = 0
    /\ cur = NoCur
    /\ fpos = 0
    /\ paused = {}
    /\ cx = "none"
    /\ trace = <<>>
    /\ out = <<>>
    /\ err = <<>>
    /\ exc = "none"

---------------------------------------------------------------------------
(* Neo4jConsole.run and Neo4jConsole.invoke.                               *)

\* text = self.prompt(): the prompt is rendered and one line is read.
Prompt ==
    /\ pc = "Prompting"
    /\ \E line \in Lines : text' = line
    /\ pc' = "Read"
    /\ UNCHANGED <<cluster, machines, args, cmd, snap, todo, found, cur, fpos,
                   paused, cx, trace, out, err, exc>>

\* if text: self.args = shlex_split(text), up to the call of self.invoke.
Tokenize ==
    /\ pc = "Read"
    /\ IF text = <<>>
       THEN /\ pc' = "Prompting"
            /\ UNCHANGED <<args, exc>>
       ELSE LET r == shlex_split(text) IN
            IF r.ok
            THEN /\ args' = r.toks
                 /\ pc' = "Dispatching"
                 /\ UNCHANGED exc
            ELSE /\ pc' = "Halted"
                 /\ exc' = "ValueError"
                 /\ UNCHANGED args
    /\ UNCHANGED <<cluster, machines, text, cmd, snap, todo, found, cur, fpos,
                   paused, cx, trace, out, err>>

\* An except clause that passes over SystemExit as well.
Swallowed_SystemExitToo(e) == e \in {"Exit", "SystemExit"}

\* An except clause for BadParameter alone.
Reported_BadParameterOnly(e) == e = "BadParameter"

\* An except clause for every exception.
Reported_AnyException(e) == e \notin {"none", "Exit", "SystemExit"}

\* The except clauses of invoke: click's Exit is passed over, a
\* ClickException is reported; BadParameter and UsageError are
\* ClickExceptions.
\* An invoke without the except clause for click.exceptions.Exit.
Swallowed_Nothing(e) == FALSE

Swallowed(e) == e = "Exit"
Reported(e) == e \in {"BadParameter", "UsageError"}

\* error.format_message()
FormatMessage(e, msg) ==
    IF e = "BadParameter" THEN Msg("Invalid value: " \o msg.text, msg.names) ELSE msg

\* How invoke and run are left when the try block ends with e ("none": it
\* returned): back to the loop, or out of run with the exception.
Unwind(e, msg) ==
    IF e = "none" \/ Swallowed(e) \/ Reported(e)
    THEN /\ pc' = "Returned"
         /\ err' = IF Reported(e) THEN Append(err, FormatMessage(e, msg)) ELSE err
         /\ UNCHANGED exc
    ELSE /\ pc' = "Halted"
         /\ exc' = e
         /\ UNCHANGED err

\* self.invoke(*self.args), up to the end of a body that is no loop over
\* machines, or up to the start of _for_each_machine.
Invoke ==
    /\ pc = "Dispatching"
    /\ IF args = <<>>
       THEN /\ Unwind("IndexError", NoMsg)
            /\ UNCHANGED <<machines, cmd, snap, todo, found, cx, trace, out>>
       ELSE LET arg0 == args[1]
                f    == GetItem(cluster, arg0)
                ctx  == MakeContext(arg0, Tail(args))
            IN  IF f.e # "none"
                THEN /\ Unwind(f.e, f.msg)
                     /\ UNCHANGED <<machines, cmd, snap, todo, found, cx, trace, out>>
                ELSE IF ctx.e # "none"
                THEN /\ Unwind(ctx.e, ctx.msg)
                     /\ out' = IF ctx.e = "Exit" THEN Append(out, ctx.msg) ELSE out
                     /\ UNCHANGED <<machines, cmd, snap, todo, found, cx, trace>>
                ELSE IF arg0 \in MachineCommands
                THEN /\ cmd' = [name |-> arg0,
                                machine |-> ctx.vals[Len(ctx.vals)],
                                time |-> IF arg0 = "pause" THEN ctx.vals[1] ELSE None]
                     /\ snap' = SpecList(machines)
                     /\ todo' = SpecList(machines)
                     /\ found' = 0
                     /\ pc' = "Iterating"
                     /\ UNCHANGED <<machines, cx, trace, out, err, exc>>
                ELSE \E o \in Body(cluster, arg0, ctx.vals, machines) :
                     /\ cmd' = [NoCmd EXCEPT !.name = arg0]
                     /\ machines' = o.machines
                     /\ trace' = trace \o o.trace
                     /\ out' = out \o o.out
                     /\ cx' = o.cx
                     /\ Unwind(o.e, o.msg)
                     /\ UNCHANGED <<snap, todo, found>>
    /\ UNCHANGED <<cluster, text, args, cur, fpos, paused>>

---------------------------------------------------------------------------
(* _for_each_machine(machine, f) for browser, ping, logs and pause.        *)

\* A pause that unpauses before it sleeps.
FCalls_SleepAfterUnpause(name) ==
    CASE name = "browser" -> <<"open_browser">>
      [] name = "ping"    -> <<"Machine.ping">>
      [] name = "logs"    -> <<"Container.logs">>
      [] name = "pause"   -> <<"Container.pause", "Container.unpause", "sleep",
                               "Machine.ping">>

\* The collaborator calls the action f of each command makes on a machine.
FCalls(name) ==
    CASE name = "browser" -> <<"open_browser">>
      [] name = "ping"    -> <<"Machine.ping">>
      [] name = "logs"    -> <<"Container.logs">>
      [] name = "pause"   -> <<"Container.pause", "sleep", "Container.unpause",
                               "Machine.ping">>

\* The line f echoes before (browser, pause: at its start) or after (logs)
\* its k-th call.
FEcho(name, k, spec, time) ==
    CASE name = "browser" /\ k = 1 ->
            <<Msg("Opening web browser for machine", <<spec.fq_name>>)>>
      [] name = "pause" /\ k = 1 -> <<Msg("Pausing machine", <<spec.fq_name>>)>>
      [] name = "logs" /\ k = 1 -> <<Msg("logs", <<spec.fq_name>>)>>
      [] OTHER -> <<>>

\* The generator of _iter_machines is resumed: it ends (the loop of
\* _for_each_machine is over and the command raises or returns), or it
\* yields self.service.machines[spec] for the next matching spec.
NextMachine ==
    /\ pc = "Iterating"
    /\ LET name == EffectiveName(cmd.machine)
           idx  == MatchIdx(todo, name)
       IN  IF idx = {}
           THEN /\ IF found = 0
                   THEN Unwind("BadParameter", NotFound(cmd.machine))
                   ELSE Unwind("none", NoMsg)
                /\ todo' = <<>>
                /\ UNCHANGED <<cur, fpos>>
           ELSE LET i == CHOOSE k \in idx : \A j \in idx : k <= j
                    at == Lookup(machines, todo[i])
                IN  /\ todo' = SubSeq(todo, i + 1, Len(todo))
                    /\ IF at = {}
                       THEN /\ Unwind("KeyError", NoMsg)
                            /\ UNCHANGED <<cur, fpos>>
                       ELSE /\ cur' = [spec |-> todo[i],
                                       live |-> machines[CHOOSE k \in at : TRUE].live,
                                       set |-> TRUE]
                            /\ fpos' = 0
                            /\ pc' = "InAction"
                            /\ UNCHANGED <<err, exc>>
    /\ UNCHANGED <<cluster, machines, text, args, cmd, snap, found, paused, cx,
                   trace, out>>

\* time.sleep(t) raises ValueError for a NaN.
SleepRaises(t) == t.f.nan

\* What a collaborator call made by an action may leave of the mapping:
\* the Service may have registered or dropped a machine meanwhile.
TopologyAfter(ms) == {ms} \cup ServiceAdd(ms) \cup ServiceRemove(ms)

\* The next call of f(machine_obj); after the last one f returns and
\* found += 1.  A None in place of the machine is an AttributeError at the
\* first attribute access; any collaborator call may raise, and may change
\* the Service's topology.
ActionStep ==
    /\ pc = "InAction"
    /\ LET calls == FCalls(cmd.name)
           k     == fpos + 1
           op    == calls[k]
           fq    == cur.spec.fq_name
           ev    == Ev(op, IF op = "sleep" THEN "" ELSE fq,
                       IF op = "sleep" THEN cmd.time.f.val ELSE 0)
       IN  IF ~cur.live
           THEN /\ Unwind("AttributeError", NoMsg)
                /\ UNCHANGED <<machines, found, fpos, paused, trace, out>>
           ELSE \E raises \in BOOLEAN :
                /\ raises => op # "sleep"
                /\ trace' = Append(trace, IF raises THEN Failed(ev) ELSE ev)
                /\ out' = out \o FEcho(cmd.name, k, cur.spec, cmd.time)
                /\ machines' \in IF op = "sleep" THEN {machines}
                                  ELSE TopologyAfter(machines)
                /\ IF raises
                   THEN /\ Unwind("CollabError", NoMsg)
                        /\ UNCHANGED <<found, fpos, paused>>
                   ELSE IF op = "sleep" /\ SleepRaises(cmd.time)
                   THEN /\ Unwind("ValueError", NoMsg)
                        /\ UNCHANGED <<found, fpos, paused>>
                   ELSE /\ paused' = CASE op = "Container.pause" -> paused \cup {fq}
                                       [] op = "Container.unpause" -> paused \ {fq}
                                       [] OTHER -> paused
                        /\ IF k = Len(calls)
                           THEN /\ found' = found + 1
                                /\ fpos' = 0
                                /\ pc' = "Iterating"
                           ELSE /\ fpos' = k
                                /\ UNCHANGED <<found, pc>>
                        /\ UNCHANGED <<err, exc>>
    /\ UNCHANGED <<cluster, text, args, cmd, snap, todo, cur, cx>>

\* invoke has returned to run: the loop prompts again.
Return ==
    /\ pc = "Returned"
    /\ pc' = "Prompting"
    /\ text' = <<>>
    /\ args' = <<>>
    /\ cmd' = NoCmd
    /\ snap' = <<>>
    /\ todo' = <<>>
    /\ found' = 0
    /\ cur' = NoCur
    /\ fpos' = 0
    /\ cx' = "none"
    /\ trace' = <<>>
    /\ out' = <<>>
    /\ err' = <<>>
    /\ UNCHANGED <<cluster, machines, paused, exc>>

Next == Prompt \/ Tokenize \/ Invoke \/ NextMachine \/ ActionStep \/ Return

Spec == Init /\ [][Next]_vars

\* The status the process exits with once run has been left.
ExitCode == IF exc = "SystemExit" THEN 0 ELSE 1

---------------------------------------------------------------------------
(* Helpers of the properties.                                              *)

\* The invocation in flight is over: invoke has returned or run was left.
Ended == pc \in {"Returned", "Halted"}

\* line.strip(): the line without its leading and trailing whitespace.
RECURSIVE Strip(_)
Strip(line) ==
    IF line = <<>> THEN <<>>
    ELSE IF Head(line) = SP THEN Strip(Tail(line))
    ELSE IF line[Len(line)] = SP THEN Strip(SubSeq(line, 1, Len(line) - 1))
    ELSE line

\* The collaborator calls of the invocation that raised.
RaisedCalls == {i \in 1..Len(trace) : trace[i].raised}

\* The calls of the invocation with the given names, in order.
CallsOf(ops) == SelectSeq(trace, LAMBDA ev : ev.op \in ops)

---------------------------------------------------------------------------
(* C1..C10                                                                 *)

\* C1: a line that is empty or only whitespace is never dispatched: while
\* such a line is the current one, the loop is reading or prompting and has
\* called neither invoke nor a command.
C1_BlankLineNotDispatched ==
    Strip(text) = <<>> => pc \in {"Prompting", "Read"}

\* C2: provided no collaborator call raises, the read-eval loop halts only
\* by a line that runs the exit command.
C2_OnlyExitHalts ==
    (pc = "Halted" /\ RaisedCalls = {}) => (exc = "SystemExit" /\ cmd.name = "exit")

\* C3: once the body of exit has run, invoke and run have been left with
\* SystemExit uncaught: nothing was reported on the error stream, no step
\* of the loop (prompt, dispatch) is possible any more, and the exit code
\* is 0.
C3_ExitTerminates ==
    cmd.name = "exit" =>
        /\ pc = "Halted"
        /\ exc = "SystemExit"
        /\ ExitCode = 0
        /\ err = <<>>
        /\ ~ENABLED Next

C3_Witness == cmd.name = "exit" /\ pc = "Halted" /\ args = <<"exit">>

\* The user errors of C4, read off the tokens and the machine mapping.
UnknownCommand == args # <<>> /\ args[1] \notin Commands(cluster)

BindingFailure ==
    /\ args # <<>>
    /\ args[1] \in Commands(cluster)
    /\ MakeContext(args[1], Tail(args)).e \in {"UsageError", "BadParameter"}

MachineNotFound ==
    /\ cmd.name \in MachineCommands
    /\ \A i \in 1..Len(snap) :
          LET tok == IF cmd.machine.given /\ cmd.machine.s # "" THEN cmd.machine.s
                     ELSE "a"
          IN  tok # snap[i].name /\ tok # snap[i].fq_name

InvalidMode ==
    /\ cmd.name = "add"
    /\ args[2] \notin {"c", "core", "r", "rr", "replica", "read-replica", "read_replica"}

\* C4: an invocation that ends with a user error (unknown command, argument
\* binding failure, machine not found, invalid add mode) ends inside
\* invoke with exactly one line on the error stream, and the loop goes on
\* to prompt again.
C4_UserErrorsCaught ==
    (Ended /\ (UnknownCommand \/ BindingFailure \/ MachineNotFound \/ InvalidMode)) =>
        /\ pc = "Returned"
        /\ exc = "none"
        /\ Len(err) = 1
        /\ ENABLED Return

C4_Witness ==
    /\ pc = "Returned"
    /\ args = <<"pause", "zz">>
    /\ BindingFailure
    /\ Len(err) = 1

\* C5: when the first token is not a registered command, invoke prints
\* exactly one "No such command" line naming the token, runs no command
\* body, calls no collaborator, and returns to the loop.
C5_NoSuchCommand ==
    UnknownCommand =>
        /\ pc \in {"Dispatching", "Returned"}
        /\ cmd = NoCmd
        /\ trace = <<>>
        /\ out = <<>>
        /\ pc = "Returned" =>
              /\ err = <<Msg("Invalid value: No such command", <<args[1]>>)>>
              /\ exc = "none"
              /\ ENABLED Return

C5_Witness ==
    /\ pc = "Returned"
    /\ args[1] = "run"
    /\ err = <<Msg("Invalid value: No such command", <<"run">>)>>

\* C6: when a collaborator call of a command body raises, invoke does not
\* catch it: nothing is printed on the error stream, run is left with the
\* failure, and no further step of the loop is possible.
C6_CollaboratorFailurePropagates ==
    RaisedCalls # {} =>
        /\ pc = "Halted"
        /\ exc = "CollabError"
        /\ err = <<>>
        /\ ExitCode # 0
        /\ ~ENABLED Next

C6_Witness ==
    /\ pc = "Halted"
    /\ cmd.name = "ping"
    /\ Len(trace) = 2
    /\ trace[2].raised

\* C7: when an invocation of rt is over and its connector had been
\* constructed, the connector has been closed exactly once.
C7_ConnectorClosed ==
    (Ended /\ cmd.name = "rt" /\ Len(CallsOf({"Connector"})) = 1
           /\ ~CallsOf({"Connector"})[1].raised) =>
        /\ cx = "closed"
        /\ Len(CallsOf({"Connector.close"})) = 1

\* The specs of the mapping, as it was when the iteration started, whose
\* short or fully-qualified name is tok, in the mapping's order.
SpecsNamed(tok) ==
    SelectSeq(snap, LAMBDA sp : tok = sp.name \/ tok = sp.fq_name)

\* The machines on which the action f was started, in order: f's first
\* collaborator call names the machine.
ActionTargets ==
    LET first == CASE cmd.name = "browser" -> "open_browser"
                   [] cmd.name = "ping"    -> "Machine.ping"
                   [] cmd.name = "logs"    -> "Container.logs"
                   [] OTHER                -> "Container.pause"
        calls == CallsOf({first})
    IN  [i \in 1..Len(calls) |-> calls[i].arg]

\* _for_each_machine has returned: the loop over the machines ended without
\* an exception of the action.
ForEachReturned == pc = "Returned" /\ cmd.name \in MachineCommands

\* C8 as stated: for every token, the count returned is 0 exactly when no
\* spec is named by the token, and otherwise the number of specs the token
\* names, the action having run once on each, in the mapping's order.
C8_AsStated ==
    ForEachReturned =>
        LET named == IF cmd.machine.given THEN SpecsNamed(cmd.machine.s) ELSE <<>>
        IN  /\ found = 0 <=> named = <<>>
            /\ found = Len(named)
            /\ ActionTargets = [i \in 1..Len(named) |-> named[i].fq_name]

\* C8, amended: the same with the token the resolver matches on, which is
\* "a" when the token given is empty or None.
C8_ForEachMachineCount ==
    ForEachReturned =>
        LET tok   == IF cmd.machine.given /\ cmd.machine.s # "" THEN cmd.machine.s
                     ELSE "a"
            named == SpecsNamed(tok)
        IN  /\ found = 0 <=> named = <<>>
            /\ found = Len(named)
            /\ ActionTargets = [i \in 1..Len(named) |-> named[i].fq_name]

C8_Witness ==
    /\ ForEachReturned
    /\ cmd.name = "ping"
    /\ found = 2
    /\ ActionTargets = <<"a.t", "a.s">>

\* What pause does on one machine, in order, for a duration t.
PauseSequence(fq, t) ==
    <<[op |-> "Container.pause", arg |-> fq, t |-> 0],
      [op |-> "sleep", arg |-> "", t |-> t],
      [op |-> "Container.unpause", arg |-> fq, t |-> 0],
      [op |-> "Machine.ping", arg |-> fq, t |-> 0]>>

RECURSIVE PausePlan(_, _)
PausePlan(specs, t) ==
    IF specs = <<>> THEN <<>>
    ELSE PauseSequence(Head(specs).fq_name, t) \o PausePlan(Tail(specs), t)

\* C9: the calls of a pause command are, at every moment, the first calls
\* of pause, sleep(duration), unpause, ping on the first matched machine,
\* then the same on the next, and so on; when the command returns having
\* found a machine they are all of them, once each, the duration slept
\* being the one given; and never are two machines paused.
C9_PauseSequential ==
    /\ Cardinality(paused) <= 1
    /\ cmd.name = "pause" =>
          LET tok  == IF cmd.machine.given /\ cmd.machine.s # "" THEN cmd.machine.s
                      ELSE "a"
              plan == PausePlan(SpecsNamed(tok), ParseFloat(args[2]).val)
              done == [i \in 1..Len(trace) |->
                         [op |-> trace[i].op, arg |-> trace[i].arg, t |-> trace[i].t]]
          IN  /\ Len(done) <= Len(plan)
              /\ done = SubSeq(plan, 1, Len(done))
              /\ (pc = "Returned" /\ found > 0) => done = plan
              /\ paused \subseteq {plan[i].arg : i \in 1..Len(plan)}

C9_Witness ==
    /\ pc = "Returned"
    /\ cmd.name = "pause"
    /\ found = 2
    /\ Len(trace) = 8
    /\ paused = {}

\* C10: when the body of add has run with a mode token, the Service calls
\* it made are add_core alone exactly when the token is c or core,
\* add_replica alone exactly when it is r, rr, replica, read-replica or
\* read_replica, and for any other token none at all, the command ending
\* with one parameter error that names "core" and "read-replica" only.
C10_AddModes ==
    (Ended /\ cmd.name = "add") =>
        LET mode  == args[2]
            calls == [i \in 1..Len(trace) |-> trace[i].op]
        IN  /\ mode \in {"c", "core"} <=> calls = <<"Service.add_core">>
            /\ mode \in {"r", "rr", "replica", "read-replica", "read_replica"}
                   <=> calls = <<"Service.add_replica">>
            /\ mode \notin {"c", "core", "r", "rr", "replica", "read-replica",
                            "read_replica"} =>
                  /\ calls = <<>>
                  /\ pc = "Returned"
                  /\ err = <<Msg("Invalid value: Invalid value for MODE, choose from",
                                 <<"core", "read-replica">>)>>

C10_Witness ==
    /\ pc = "Returned"
    /\ cmd.name = "add"
    /\ args = <<"add", "read_replica">>
    /\ Len(trace) = 1
    /\ trace[1].op = "Service.add_replica"
    /\ ~trace[1].raised

\* C11: when ping, logs or pause ends because no machine matched, the one
\* error line names the token that was resolved: the token given, or "a"
\* when the machine argument was omitted or empty.
C11_NotFoundNamesResolvedToken ==
    (Ended /\ cmd.name \in {"ping", "logs", "pause"} /\ MachineNotFound) =>
        LET tok == IF cmd.machine.given /\ cmd.machine.s # "" THEN cmd.machine.s
                   ELSE "a"
        IN  err = <<Msg("Invalid value: Machine not found", <<"'" \o tok \o "'">>)>>

\* C12: when the body of rm (reboot) has run, the one collaborator call
\* it made is Service.remove (Service.reboot) with the token as typed, and
\* unless that call raised, the command ends with the machine-not-found
\* error naming the token exactly when the call returned a falsy value.
C12_RmRebootDelegate ==
    (Ended /\ cmd.name \in {"rm", "reboot"}) =>
        /\ Len(trace) = 1
        /\ trace[1].op = (IF cmd.name = "rm" THEN "Service.remove" ELSE "Service.reboot")
        /\ trace[1].arg = args[2]
        /\ ~trace[1].raised =>
              /\ pc = "Returned"
              /\ trace[1].ret \in {"True", "False"}
              /\ trace[1].ret = "False" <=>
                    err = <<Msg("Invalid value: Machine not found",
                                <<"'" \o args[2] \o "'">>)>>
              /\ trace[1].ret = "True" <=> err = <<>>

C12_Witness ==
    /\ pc = "Returned"
    /\ args = <<"rm", "zz">>
    /\ cmd.name = "rm"
    /\ Len(trace) = 1
    /\ trace[1].ret = "False"
    /\ Len(err) = 1

\* C13: when the body of ls has run, it has printed the header and then
\* one row for each entry of the mapping that holds a machine, in the
\* mapping's order, with the spec's mode or "SINGLE" when none is set, and
\* nothing for the entries that hold None: no row and no error.
C13_LsRows ==
    (Ended /\ cmd.name = "ls") =>
        LET shown == SelectSeq(machines, LAMBDA en : en.live)
            mode(sp) == IF sp.mode = "unset" THEN "SINGLE" ELSE sp.mode
        IN  /\ pc = "Returned"
            /\ err = <<>>
            /\ Len(out) = 1 + Len(shown)
            /\ out[1] = Msg("NAME CONTAINER MODE BOLT PORT HTTP PORT DEBUG PORT", <<>>)
            /\ \A i \in 1..Len(shown) :
                  out[i + 1] = Msg("row", <<shown[i].spec.fq_name, mode(shown[i].spec)>>)

C13_Witness ==
    /\ pc = "Returned"
    /\ cmd.name = "ls"
    /\ machines = <<[spec |-> Spec_a, live |-> FALSE], [spec |-> Spec_b, live |-> TRUE]>>
    /\ out = <<Msg("NAME CONTAINER MODE BOLT PORT HTTP PORT DEBUG PORT", <<>>),
               Msg("row", <<"b.s", "SINGLE">>)>>

\* C14: the specs visited are those captured when the iteration started:
\* when a loop over the machines is over and no action raised, the action
\* has run on every spec of the captured list that the token names, in
\* order, whatever became of the mapping while the actions ran.
C14_VisitedAsCaptured ==
    (Ended /\ cmd.name \in MachineCommands
           /\ exc \notin {"CollabError", "AttributeError", "ValueError"}) =>
        LET tok   == IF cmd.machine.given /\ cmd.machine.s # "" THEN cmd.machine.s
                     ELSE "a"
            named == SpecsNamed(tok)
        IN  ActionTargets = [i \in 1..Len(named) |-> named[i].fq_name]

\* C15: on either console a lookup returns a command exactly when the name
\* is one the console enumerates: the lookup of the first token by invoke,
\* and the lookup of its argument by help, fail with "No such command"
\* for every other name, attributes that are not commands included; and
\* the base console's commands are all commands of the cluster console.
C15_LookupIffEnumerated ==
    /\ Commands(FALSE) \subseteq Commands(TRUE)
    /\ \A cls \in BOOLEAN : OtherAttributes \cap Commands(cls) = {}
    /\ (Ended /\ args # <<>>) =>
          (err = <<Msg("Invalid value: No such command", <<args[1]>>)>>
              <=> args[1] \notin Commands(cluster))
    /\ (Ended /\ cmd.name = "help" /\ Len(args) = 2 /\ args[2] # "") =>
          /\ err = <<Msg("Invalid value: No such command", <<args[2]>>)>>
                <=> args[2] \notin Commands(cluster)
          /\ out = <<Msg("Usage", <<args[2]>>)>>
                <=> args[2] \in Commands(cluster)

C15_Witness ==
    /\ pc = "Returned"
    /\ cluster
    /\ cmd.name = "add"
    /\ err # <<Msg("Invalid value: No such command", <<"add">>)>>

\* The place of a name in the alphabet of command names.
AlphaRank(n) == CHOOSE i \in 1..Len(AlphaOrder) : AlphaOrder[i] = n

\* C16: help without a command prints "Commands:" and then one line per
\* registered command: every enumerated name exactly once, the names in
\* ascending alphabetical order, each with a summary that is not empty.
C16_HelpListsCommands ==
    (Ended /\ cmd.name = "help" /\ (Len(args) = 1 \/ args[2] = "")) =>
        /\ pc = "Returned"
        /\ err = <<>>
        /\ Len(out) = 1 + Cardinality(Commands(cluster))
        /\ out[1] = Msg("Commands:", <<>>)
        /\ \A n \in Commands(cluster) :
              Cardinality({i \in 2..Len(out) : out[i].text = n}) = 1
        /\ \A i \in 2..Len(out) :
              /\ out[i].text \in Commands(cluster)
              /\ Len(out[i].names) = 1
              /\ out[i].names[1] # ""
        /\ \A i, j \in 2..Len(out) :
              i < j => AlphaRank(out[i].text) < AlphaRank(out[j].text)

C16_Witness ==
    /\ pc = "Returned"
    /\ cluster
    /\ args = <<"help">>
    /\ Len(out) = 13
    /\ out[2].text = "add"
    /\ out[13].text = "rt"

\* C17: on any mapping, the empty token and the omitted token resolve to
\* the machines the token "a" resolves to, in the same order: the specs
\* whose short or fully-qualified name is "a".
C17_EmptyTokenIsA ==
    (ForEachReturned /\ (~cmd.machine.given \/ cmd.machine.s = "")) =>
        LET asA == SelectSeq(snap, LAMBDA sp : sp.name = "a" \/ sp.fq_name = "a")
        IN  /\ found = Len(asA)
            /\ ActionTargets = [i \in 1..Len(asA) |-> asA[i].fq_name]

C17_Witness ==
    /\ ForEachReturned
    /\ cmd.machine.given
    /\ cmd.machine.s = ""
    /\ found = 2
    /\ ActionTargets = <<"a.s", "a.t">>

\* C18: the action of _for_each_machine is only ever called with a live
\* Machine: a spec under which the mapping holds None is not handed to the
\* action, and no command fails on the attributes of an absent machine.
C18_ActionOnLiveMachineOnly ==
    /\ pc = "InAction" => cur.live
    /\ exc # "AttributeError"

\* C19: however an invocation of pause ends, by a return, a user error or
\* a failure of sleep, unpause or the ping, no machine that it paused is
\* left paused.
C19_NoMachineLeftPaused ==
    (Ended /\ cmd.name = "pause") => paused = {}

\* The binding of the tokens ends in click's Exit: a registered command
\* was given --help.
EarlyExit ==
    /\ args # <<>>
    /\ args[1] \in Commands(cluster)
    /\ MakeContext(args[1], Tail(args)).e = "Exit"

=============================================================================
